---- MODULE Spec2Model ----
(***************************************************************************)
(* Model of remedy_py/RemedyHelper.py: the RemedyHelper form-mapping       *)
(* client layered on RemedyClient.  Every action is one complete call of   *)
(* a RemedyHelper method.  The REST client underneath (get_form_entry,     *)
(* create_form_entry, requests.request) and the local file system are the  *)
(* environment: each call draws their outcomes from bounded sets.          *)
(*                                                                         *)
(* Python values are tagged records so that a str, a dict and a list can   *)
(* be told apart the way the interpreter tells them apart when indexing.   *)
(* A call's outcome is either [kind |-> "return", v |-> value] or          *)
(* [kind |-> "raise", exc |-> exception class].                            *)
(***************************************************************************)
EXTENDS Integers, Sequences, FiniteSets, TLC

VARIABLES
    call,      \* the last RemedyHelper call: method name and arguments
    result,    \* what that call gave its caller: a return value or an exception
    http,      \* the requests that call issued, in order
    records,   \* server side: the work orders created so far, in order
    nSubmit,   \* submit_workorder executions so far
    nCreate,   \* create_form_entry requests issued so far
    nCalls     \* calls made so far

vars == <<call, result, http, records, nSubmit, nCreate, nCalls>>

----------------------------------------------------------------------------
(* Bounds *)

MaxCalls == 2      \* calls in one behaviour
MaxEntries == 2    \* entries a query may return
MaxPathLen == 2    \* characters in a directory or file name
MaxDelta == 1      \* file sizes within MaxDelta of 0, of the cap and of twice the cap

----------------------------------------------------------------------------
(* Python values and outcomes *)

PyStr(s) == [t |-> "str", s |-> s]
PyInt(n) == [t |-> "int", n |-> n]
PyDict(f) == [t |-> "dict", d |-> f]
PyList(items) == [t |-> "list", items |-> items]
PyNone == [t |-> "None"]

\* f"<prefix>{e}": the literal text and the interpolated exception
FStr(prefix, e) == [t |-> "str", s |-> prefix, e |-> e]

Return(v) == [kind |-> "return", v |-> v]
Raise(exc) == [kind |-> "raise", exc |-> exc]

\* v[i] with an integer i: 0-based, a negative i counting from the end
Item(v, i) ==
    IF v.t = "list"
    THEN LET k == IF i < 0 THEN i + Len(v.items) ELSE i
         IN IF 0 <= k /\ k < Len(v.items) THEN Return(v.items[k + 1])
            ELSE Raise("IndexError")
    ELSE IF v.t = "dict" THEN Raise("KeyError")
    ELSE Raise("TypeError")

\* v[k] with a string key k
Key(v, k) ==
    IF v.t = "dict"
    THEN IF k \in DOMAIN v.d THEN Return(v.d[k]) ELSE Raise("KeyError")
    ELSE Raise("TypeError")

\* The steps of a chain of subscripts v[i]['k']...
Idx(i) == [step |-> "item", i |-> i]
At(k) == [step |-> "key", k |-> k]

\* r[..][..]..: the subscripts applied in order to the value of r; the first
\* exception, r's own included, ends the chain
RECURSIVE Subscript(_, _)
Subscript(r, path) ==
    IF r.kind = "raise" \/ path = <<>> THEN r
    ELSE Subscript(IF Head(path).step = "item"
                   THEN Item(r.v, Head(path).i)
                   ELSE Key(r.v, Head(path).k),
                   Tail(path))

----------------------------------------------------------------------------
(* The REST client underneath: outcomes of get_form_entry *)

\* What the REST client raises when a request fails
TransportErrors == {"ConnectionError"}

Entry(i) == PyDict("values" :> PyDict("Request ID" :> PyInt(i)))

\* What a query matches: no entry, or entries 1..n in the server's order
EntryLists == {[i \in 1..n |-> Entry(i)] : n \in 0..MaxEntries}

\* get_form_entry returns the tuple (response.json(), status_code) or raises
QueryOutcomes ==
    {Raise(e) : e \in TransportErrors}
    \cup {Return(PyList(<<PyDict("entries" :> PyList(es)), PyInt(200)>>)) : es \in EntryLists}

Query(field, value) == [field |-> field, value |-> value]
GetRequest(form, req_id) == [method |-> "GET", form |-> form, req_id |-> req_id]

Ids == {1}

----------------------------------------------------------------------------
(* Read operations.  Each takes the outcome of its get_form_entry call and *)
(* gives the call's outcome and the requests it issued.                    *)

\* first_entry taking the last matching entry
first_entry_last(resp) ==
    Subscript(Return(resp), <<Idx(0), At("entries"), Idx(-1)>>)

\* resp[0]['entries'][0]
first_entry(resp) ==
    Subscript(Return(resp), <<Idx(0), At("entries"), Idx(0)>>)

\* resp[0]['entries']
all_entries(resp) ==
    Subscript(Return(resp), <<Idx(0), At("entries")>>)

get_workorder(workorder_id, resp) ==
    [http |-> <<GetRequest("WOI:WorkOrderInterface", Query("Work Order ID", workorder_id))>>,
     result |-> IF resp.kind = "raise"
                THEN Return(FStr("Error getting workorder: ", resp.exc))
                ELSE first_entry(resp.v)]

get_workorder_tasks(workorder_id, resp) ==
    [http |-> <<GetRequest("TMS:Task", Query("RootRequestID", workorder_id))>>,
     result |-> IF resp.kind = "raise"
                THEN Return(FStr("Error getting workorder tasks: ", resp.exc))
                ELSE all_entries(resp.v)]

get_person_by_username(username, resp) ==
    [http |-> <<GetRequest("CTM:People", Query("Remedy Login ID", username))>>,
     result |-> IF resp.kind = "raise"
                THEN Return(FStr("Error getting person: ", resp.exc))
                ELSE first_entry(resp.v)]

get_incident(incident_id, resp) ==
    [http |-> <<GetRequest("HPD:Help Desk", Query("Incident ID", incident_id))>>,
     result |-> IF resp.kind = "raise"
                THEN Return(FStr("Error getting incident: ", resp.exc))
                ELSE first_entry(resp.v)]

get_incident_notes(incident_id, resp) ==
    [http |-> <<GetRequest("HPD:Help Desk", Query("Incident ID", incident_id))>>,
     result |-> IF resp.kind = "raise"
                THEN Return(FStr("Error getting incident notes: ", resp.exc))
                ELSE all_entries(resp.v)]

ReadOps ==
    {"get_workorder", "get_workorder_tasks", "get_person_by_username",
     "get_incident", "get_incident_notes"}

----------------------------------------------------------------------------
(* Module constants of RemedyHelper.py *)

REMEDY_COMPANY == "University of Kansas Hospital"
REMEDY_SUPPORT_GROUP == "Servers and Storage"
REMEDY_SUPPORT_ORG == "HITS - IT Infrastructure"

\* A template identifier is kept as its first five characters and the rest,
\* which is what str.startswith("IDGAA") looks at.
TStr(prefix, rest) == [prefix |-> prefix, rest |-> rest]

BuildServerKey == TStr("Build", "_Server")
ModifyServerKey == TStr("Modif", "y_Server")
BuildServerId == TStr("IDGAA", "5V0F2IWUAPH3YCVPG73D772NR")
ModifyServerId == TStr("IDGAA", "5V0F2BJ9APPV3A8POYHQ1BJB4")

TEMPLATE_LIST == (BuildServerKey :> BuildServerId) @@ (ModifyServerKey :> ModifyServerId)

\* The template_id argument of a call that passes none
Omitted == TStr("", "")

\* Lines 96, 201 and 337: a parameter's default stands in for a missing argument
Default(arg, default) == IF arg = Omitted THEN default ELSE arg

StartsWithIDGAA(template_id) == template_id.prefix = "IDGAA"

\* Lines 215-218 and 355-358: the identifier to use; ok is FALSE where the
\* code returns "Error: Invalid template ID"
resolve_template(template_id) ==
    IF template_id \in DOMAIN TEMPLATE_LIST
    THEN [ok |-> TRUE, id |-> TEMPLATE_LIST[template_id]]
    ELSE IF ~StartsWithIDGAA(template_id)
         THEN [ok |-> FALSE, id |-> template_id]
         ELSE [ok |-> TRUE, id |-> template_id]

----------------------------------------------------------------------------
(* The REST client underneath: outcomes of create_form_entry *)

EmptyDict == PyDict([k \in {} |-> PyNone])

\* (response.json(), status_code) of a create that the server accepted as
\* record newId: the body normally carries the return_values asked for
CreateBodies(newId) ==
    {PyDict("values" :> PyDict("WorkOrder_ID" :> PyInt(newId))),
     PyDict("values" :> EmptyDict),
     EmptyDict}

CreateOutcomes(newId) ==
    {Raise(e) : e \in TransportErrors}
    \cup {Return(PyList(<<body, PyInt(201)>>)) : body \in CreateBodies(newId)}

CreateRequest(form, values, return_values) ==
    [method |-> "POST", form |-> form, values |-> values, return_values |-> return_values]

\* submit_workorder with the logger.debug line after the try block
submit_workorder_log_outside(values, resp) ==
    LET form == "WOI:WorkOrderInterface_Create"
        logged == Subscript(resp, <<Idx(0), At("values"), At("WorkOrder_ID")>>)
    IN [http |-> <<CreateRequest(form, values, <<"WorkOrder_ID">>)>>,
        result |-> IF resp.kind = "raise"
                   THEN Return(FStr("Error creating workorder: ", resp.exc))
                   ELSE IF logged.kind = "raise" THEN logged
                   ELSE Subscript(resp, <<Idx(0), At("values")>>)]

\* submit_workorder trying the create a second time when the first one fails
submit_workorder_retry(values, resp) ==
    LET form == "WOI:WorkOrderInterface_Create"
        tried == Subscript(resp, <<Idx(0), At("values"), At("WorkOrder_ID")>>)
        request == CreateRequest(form, values, <<"WorkOrder_ID">>)
    IN [http |-> IF tried.kind = "raise" THEN <<request, request>> ELSE <<request>>,
        result |-> IF tried.kind = "raise"
                   THEN Return(FStr("Error creating workorder: ", tried.exc))
                   ELSE Subscript(resp, <<Idx(0), At("values")>>)]

\* Lines 75-93.  resp is the outcome of the create_form_entry call.
submit_workorder(values, resp) ==
    LET form == "WOI:WorkOrderInterface_Create"
        \* the try block: the call, then the logger.debug line
        tried == Subscript(resp, <<Idx(0), At("values"), At("WorkOrder_ID")>>)
    IN [http |-> <<CreateRequest(form, values, <<"WorkOrder_ID">>)>>,
        result |-> IF tried.kind = "raise"
                   THEN Return(FStr("Error creating workorder: ", tried.exc))
                   ELSE Subscript(resp, <<Idx(0), At("values")>>)]

----------------------------------------------------------------------------
(* Orders of the cloud management platform, as far as RemedyHelper reads   *)
(* them.                                                                   *)

ItemTypes == {"BlueprintOrderItem", "ServerModOrderItem", "OtherOrderItem"}

\* serverAttrs: order_item.server, .hostname, .environment and .os_build.name
\*              all resolve (no AttributeError)
\* rateDisplay: order_item.get_rate_display resolves (no AttributeError)
\* The rows that Server.objects.get and Environment.objects.get look up are
\* those of the order item itself, and are found.
OrderRecords ==
    [id : {7}, name : {"order-7"}, itemType : ItemTypes,
     serverAttrs : BOOLEAN, rateDisplay : BOOLEAN,
     hostname : {"srv01"}, quantity : {1}, funding : {"Dept-42"}]

\* Each flag varies only for the item type whose code path reads it
Orders ==
    {o \in OrderRecords :
        o.itemType # "BlueprintOrderItem" => o.serverAttrs /\ o.rateDisplay}

Attr(obj, name) ==
    IF obj.t = "dict" /\ name \in DOMAIN obj.d THEN Return(obj.d[name]) ELSE Raise("AttributeError")

\* Lines 58-71
FakeServer ==
    PyDict("hostname" :> PyStr("None") @@ "quantity" :> PyInt(0)
        @@ "os_build" :> PyStr("None") @@ "cpu_cnt" :> PyInt(0)
        @@ "mem_size" :> PyInt(0) @@ "disk_size" :> PyInt(0)
        @@ "ukhs_cost_center" :> PyStr("N/A")
        @@ "ukhs_funding_source" :> PyStr("N/A")
        @@ "ukhs_serverorder_notes" :> PyStr("N/A")
        @@ "ukhs_patch_group" :> PyStr("N/A")
        @@ "ukhs_impact" :> PyStr("N/A")
        @@ "ukhs_urgency" :> PyStr("N/A")
        @@ "ukhs_dr_tier" :> PyStr("N/A"))

\* The Server row of an order: every attribute the helper reads is there
ServerOf(order) ==
    PyDict("hostname" :> PyStr(order.hostname) @@ "quantity" :> PyInt(order.quantity)
        @@ "os_build" :> PyStr("rhel9") @@ "cpu_cnt" :> PyInt(2)
        @@ "mem_size" :> PyInt(8) @@ "disk_size" :> PyInt(40)
        @@ "disk_1_size" :> PyNone @@ "disk_2_size" :> PyNone @@ "disk_3_size" :> PyNone
        @@ "sc_nic_0" :> PyStr("vlan10") @@ "sc_nic_1" :> PyNone @@ "sc_nic_2" :> PyNone
        @@ "ukhs_cost_center" :> PyStr("P-1")
        @@ "ukhs_funding_source" :> PyStr(order.funding)
        @@ "ukhs_serverorder_notes" :> PyStr("notes")
        @@ "ukhs_patch_group" :> PyStr("A")
        @@ "ukhs_impact" :> PyStr("low")
        @@ "ukhs_urgency" :> PyStr("low")
        @@ "ukhs_dr_tier" :> PyStr("3")
        @@ "ukhs_technicaldoc_url" :> PyStr("doc")
        @@ "ukhs_application_name" :> PyStr("app")
        @@ "ukhs_app_vendor" :> PyStr("vendor")
        @@ "ukhs_environment" :> PyStr("prod")
        @@ "ukhs_server_contact" :> PyStr("ops")
        @@ "ukhs_server_description" :> PyStr("server")
        @@ "ukhs_organizational_unit" :> PyStr("ou")
        @@ "ukhs_fda510k" :> PyStr("no"))

\* Calling self.f(a1..an) on a function declared in the class body with
\* `declared` parameters: the instance is passed as one more argument.
BoundCall(declared, passed) ==
    IF passed + 1 = declared THEN Return(PyNone) ELSE Raise("TypeError")

\* Line 471: def get_environment_capacity(environment)
get_environment_capacity_params == 1
\* Line 488: def get_server_rate_hardware_breakdown(order)
get_server_rate_hardware_breakdown_params == 1

\* Lines 471-485, called as self.get_environment_capacity(environment)
get_environment_capacity(environment) ==
    LET bound == BoundCall(get_environment_capacity_params, 1)
    IN IF bound.kind = "raise" THEN bound
       ELSE Return(PyDict("disk_available" :> PyInt(500) @@ "cpu_available" :> PyInt(16)
                       @@ "mem_available" :> PyInt(64) @@ "vm_count" :> PyInt(3)))

\* Lines 488-515, called as self.get_server_rate_hardware_breakdown(order)
get_server_rate_hardware_breakdown(order) ==
    LET bound == BoundCall(get_server_rate_hardware_breakdown_params, 1)
    IN IF bound.kind = "raise" THEN bound
       ELSE Return(PyDict("CPUs" :> PyInt(10) @@ "Mem Size" :> PyInt(20)
                       @@ "Disk Size" :> PyInt(30)))

Field(label, value) == [label |-> label, value |-> value]

\* The text of a generated description: its labelled lines, in order
Description(kind, lines) == [t |-> "str", generated |-> kind, lines |-> lines]

\* `not description`
Falsy(description) == description.t = "None" \/ description = PyStr("")

Descriptions == {PyNone, PyStr("see ticket")}

TemplateIds == {BuildServerKey, ModifyServerKey, BuildServerId, TStr("bogus", "")}

\* What a caller may give as template_id: an identifier, or nothing
TemplateArgs == TemplateIds \cup {Omitted}

\* The first exception among the steps of an evaluation, if any
FirstRaise(steps) ==
    LET bad == {i \in 1..Len(steps) : steps[i].kind = "raise"}
    IN IF bad = {} THEN Return(PyNone)
       ELSE steps[CHOOSE i \in bad : \A j \in bad : i <= j]

Owner == [username |-> "ada", first_name |-> "Ada", last_name |-> "Lovelace"]
GroupName == PyStr("IT \\ Servers")
EnvironmentOf(order) ==
    PyDict("name" :> PyStr("prod-env") @@ "vmware_cluster" :> PyStr("cl1")
        @@ "vmware_datastore" :> PyStr("ds1"))

\* Lines 243-301: the description built when none was passed in.  The
\* expressions are evaluated in the order of the text; the first one that
\* raises ends the evaluation.
build_description(order, server, environment, os_build, capacity, quotedcost, hwcost) ==
    LET steps ==
          << Attr(server, "hostname"), Attr(server, "quantity"),
             Return(PyStr(Owner.username)), Return(PyStr("")), Return(GroupName),
             Return(quotedcost),
             Attr(server, "ukhs_cost_center"), Attr(server, "ukhs_funding_source"),
             Attr(server, "quantity"), Return(os_build),
             Attr(server, "cpu_cnt"), Key(hwcost, "CPUs"),
             Attr(server, "mem_size"), Key(hwcost, "Mem Size"),
             Attr(server, "disk_size"), Key(hwcost, "Disk Size"),
             Attr(server, "disk_1_size"), Attr(server, "disk_2_size"),
             Attr(server, "disk_3_size"),
             Attr(server, "sc_nic_0"), Attr(server, "sc_nic_1"), Attr(server, "sc_nic_2"),
             Attr(environment, "name"), Attr(environment, "vmware_cluster"),
             Attr(environment, "vmware_datastore"),
             Key(capacity, "cpu_available"), Key(capacity, "mem_available"),
             Key(capacity, "disk_available"), Key(capacity, "vm_count"),
             Attr(server, "ukhs_technicaldoc_url"), Attr(server, "ukhs_application_name"),
             Attr(server, "ukhs_app_vendor"), Attr(server, "ukhs_environment"),
             Attr(server, "ukhs_server_contact"), Attr(server, "ukhs_server_description"),
             Attr(server, "ukhs_patch_group"), Attr(server, "ukhs_organizational_unit"),
             Attr(server, "ukhs_fda510k") >>
        labels ==
          << "Server Name:", "Quantity:", "Requestor:", "On Behalf of:", "Group:",
             "Quoted Total Cost:", "Project #:", "Funding Source:",
             "Share of Blade Cost:", "OS:", "CPU Cores:", "CPU Cores: $",
             "Memory GB:", "Memory GB: $", "Disk 1 GB:", "Disk 1 GB: $",
             "Disk 2 GB:", "Disk 3 GB:", "Disk 4 GB:",
             "NIC 1 VLAN:", "NIC 2 VLAN:", "NIC 3 VLAN:",
             "Environment:", "Environment: /", "Datastore:",
             "CPU:", "Memory GB (available):", "Disk GB:", "VM Count:",
             "Tech Doc URL:", "Application:", "App Vendor:", "Environment (attribute):",
             "Contact(s):", "Description:", "Patch Group:", "AD OU:", "FDA 5010K:" >>
        failed == FirstRaise(steps)
        \* the optional lines are in the text only when their value is truthy
        shown == {i \in 1..Len(steps) :
                     ~(labels[i] \in {"Disk 2 GB:", "Disk 3 GB:", "Disk 4 GB:",
                                      "NIC 2 VLAN:", "NIC 3 VLAN:"}
                       /\ steps[i].v.t = "None")}
    IN IF failed.kind = "raise" THEN failed
       ELSE Return(Description("build",
                [i \in shown |-> Field(labels[i], steps[i].v)]))

\* Lines 360-378
modification_description(order, server) ==
    LET steps ==
          << Attr(server, "hostname"), Return(PyInt(order.quantity)),
             Return(PyStr(Owner.username)), Return(GroupName),
             Return(PyStr("$10")), Attr(server, "ukhs_funding_source") >>
        labels ==
          << "Server Name:", "Quantity:", "Requester:", "Group:",
             "Total Quoted Cost:", "Funding Source:" >>
        failed == FirstRaise(steps)
    IN IF failed.kind = "raise" THEN failed
       ELSE Return(Description("modification",
                [i \in 1..Len(steps) |-> Field(labels[i], steps[i].v)]))

\* The entries both payloads share (lines 306-319 and 383-396)
CommonValues ==
    "Customer First Name" :> PyStr(Owner.first_name)
    @@ "Customer Last Name" :> PyStr(Owner.last_name)
    @@ "RequesterLoginID" :> PyStr(Owner.username)
    @@ "First Name" :> PyStr(Owner.first_name)
    @@ "Last Name" :> PyStr(Owner.last_name)
    @@ "Support Group Name" :> PyStr(REMEDY_SUPPORT_GROUP)
    @@ "Support Organization" :> PyStr(REMEDY_SUPPORT_ORG)
    @@ "Support Company" :> PyStr(REMEDY_COMPANY)
    @@ "Location Company" :> PyStr(REMEDY_COMPANY)
    @@ "Company" :> PyStr(REMEDY_COMPANY)
    @@ "Submitter" :> PyStr("remedy-api")
    @@ "Priority" :> PyStr("Low")
    @@ "Status" :> PyStr("Assigned")
    @@ "Automation Status" :> PyStr("Automated")
    @@ "WO Type Field 05 Label" :> PyStr("CloudBolt Status")
    @@ "WO Type Field 05" :> PyStr("Pending Approval")
    @@ "z1D_Action" :> PyStr("CREATE")

\* Lines 201-334
create_build_workorder(order, description, template_id) ==
    LET template == resolve_template(Default(template_id, TEMPLATE_LIST[BuildServerKey]))
        \* lines 221-232: only an AttributeError takes the FakeServer branch
        try1 == IF order.serverAttrs
                THEN get_environment_capacity(EnvironmentOf(order))
                ELSE Raise("AttributeError")
        fake == try1.kind = "raise" /\ try1.exc = "AttributeError"
        server == IF fake THEN FakeServer ELSE ServerOf(order)
        hostname == IF fake THEN order.name ELSE order.hostname
        environment == IF fake THEN PyStr("") ELSE EnvironmentOf(order)
        os_build == IF fake THEN PyStr("") ELSE PyStr("rhel9")
        capacity == IF fake THEN PyStr("") ELSE try1.v
        \* lines 234-239
        try2 == IF order.rateDisplay
                THEN get_server_rate_hardware_breakdown(order)
                ELSE Raise("AttributeError")
        norate == try2.kind = "raise" /\ try2.exc = "AttributeError"
        quotedcost == IF norate THEN PyStr("") ELSE PyStr("$10")
        hwcost == IF norate THEN PyStr("") ELSE try2.v
        text == IF Falsy(description)
                THEN build_description(order, server, environment, os_build,
                                       capacity, quotedcost, hwcost)
                ELSE Return(description)
        values ==
            "Summary" :> [t |-> "str", s |-> "SRV - Build - CMP Order ",
                          id |-> order.id, hostname |-> hostname]
            @@ "Detailed Description" :> text.v
            @@ CommonValues
            @@ "WO Type Field 01" :> PyStr("Build")
            @@ "WO Type Field 02" :> [t |-> "str", s |-> "CMP OrderID ", id |-> order.id]
            @@ "WO Type Field 03" :> server.d["ukhs_funding_source"]
            @@ "WO Type Field 04" :> server.d["ukhs_serverorder_notes"]
            @@ "WO Type Field 14" :> server.d["ukhs_patch_group"]
            @@ "WO Type Field 16" :> server.d["ukhs_impact"]
            @@ "WO Type Field 17" :> server.d["ukhs_urgency"]
            @@ "WO Type Field 18" :> server.d["ukhs_dr_tier"]
            @@ "TemplateID" :> [t |-> "str", tid |-> template.id]
    IN IF order.itemType # "BlueprintOrderItem"
       THEN Return(PyStr("Error: Order item is not a BlueprintOrderItem"))
       ELSE IF ~template.ok THEN Return(PyStr("Error: Invalid template ID"))
       ELSE IF try1.kind = "raise" /\ ~fake THEN try1
       ELSE IF try2.kind = "raise" /\ ~norate THEN try2
       ELSE IF text.kind = "raise" THEN text
       ELSE Return(PyDict(values))

\* Lines 337-407
create_modification_workorder(order, description, template_id) ==
    LET template == resolve_template(Default(template_id, TEMPLATE_LIST[ModifyServerKey]))
        server == ServerOf(order)
        text == IF Falsy(description)
                THEN modification_description(order, server)
                ELSE Return(description)
        values ==
            "Summary" :> [t |-> "str", s |-> "SRV - Modify - CMP Order ",
                          id |-> order.id, hostname |-> order.hostname]
            @@ "Detailed Description" :> text.v
            @@ CommonValues
            @@ "WO Type Field 01" :> PyStr("Modify")
            @@ "WO Type Field 02" :> [t |-> "str", s |-> "CMP OrderID ", id |-> order.id]
            @@ "WO Type Field 03" :> server.d["ukhs_funding_source"]
            @@ "WO Type Field 04" :> server.d["ukhs_serverorder_notes"]
            @@ "TemplateID" :> [t |-> "str", tid |-> template.id]
    IN IF order.itemType # "ServerModOrderItem"
       THEN Return(PyStr("Error: Order item is not a ServerModOrderItem"))
       ELSE IF ~template.ok THEN Return(PyStr("Error: Invalid template ID"))
       ELSE IF text.kind = "raise" THEN text
       ELSE Return(PyDict(values))

\* Lines 96-115.  resp is the outcome of the create_form_entry call, used
\* only when the call is reached.
create_workorder(order, description, template_id, resp) ==
    LET \* line 96: the default is the build template, and lines 109 and 111
        \* pass it on as an explicit argument
        passed == Default(template_id, TEMPLATE_LIST[BuildServerKey])
        values ==
            IF order.itemType = "BlueprintOrderItem"
            THEN create_build_workorder(order, description, passed)
            ELSE create_modification_workorder(order, description, passed)
    IN IF order.itemType \notin {"BlueprintOrderItem", "ServerModOrderItem"}
       THEN [http |-> <<>>, result |-> Return(PyStr("Error: Order item is not a valid type"))]
       ELSE IF values.kind = "raise"
            THEN [http |-> <<>>, result |-> values]
            ELSE submit_workorder(values.v, resp)

----------------------------------------------------------------------------
(* File attachment *)

\* Line 540: the attachment cap in bytes
Cap == 10000000

\* A local file is its size and the step of reading it that fails, if any.
\* Its content is bytes 0 .. size-1; a piece of it read in order is kept as
\* the offsets [from, to) it covers.
Faults == {"getsize", "open", "seek", "read"}
FileSizes ==
    (0..MaxDelta) \cup ((Cap - MaxDelta)..(Cap + MaxDelta))
    \cup ((2 * Cap - MaxDelta)..(2 * Cap + MaxDelta))
Files ==
    {[fault |-> "none", size |-> n] : n \in FileSizes}
    \cup {[fault |-> f, size |-> n] : f \in Faults, n \in {1, Cap}}

Bytes(from, to) == [t |-> "bytes", from |-> from, to |-> to]
Chars(cs) == [t |-> "str", chars |-> cs]

sep == <<"/">>
FilePaths == {[i \in 1..MaxPathLen |-> "d"]}
FileNames == {[i \in 1..MaxPathLen |-> "f"]}

getsize(file) ==
    IF file.fault = "getsize" THEN Raise("OSError") ELSE Return(file.size)

open(file) ==
    IF file.fault = "open" THEN Raise("OSError") ELSE Return(0)

\* file.seek(offset, SEEK_END): the new position, which may not be negative
seek_end(file, offset) ==
    IF file.fault = "seek" \/ file.size + offset < 0
    THEN Raise("OSError")
    ELSE Return(file.size + offset)

\* file.read(): everything from the position to the end of the file
read(file, pos) ==
    IF file.fault = "read" THEN Raise("OSError")
    ELSE Return(Bytes(IF pos < file.size THEN pos ELSE file.size, file.size))

\* Line 547
placeholder(path) ==
    Chars(<<"F", "i", "l", "e", " ">> \o path
          \o <<" ", "c", "o", "u", "l", "d", " ", "n", "o", "t", " ",
               "b", "e", " ", "r", "e", "a", "d">>)

\* read_content without the seek: the whole file whatever its size
read_content_noseek(filepath, filename, file) ==
    LET path == filepath \o sep \o filename
        size == getsize(file)
        opened == IF size.kind = "raise" THEN size ELSE open(file)
        sought == IF opened.kind = "raise" THEN opened
                  ELSE opened
        tried == IF sought.kind = "raise" THEN sought ELSE read(file, sought.v)
    IN IF tried.kind = "raise" THEN placeholder(path) ELSE tried.v

\* read_content seeking whatever the size
read_content_always_seek(filepath, filename, file) ==
    LET path == filepath \o sep \o filename
        size == getsize(file)
        opened == IF size.kind = "raise" THEN size ELSE open(file)
        sought == IF opened.kind = "raise" THEN opened
                  ELSE seek_end(file, -Cap)
        tried == IF sought.kind = "raise" THEN sought ELSE read(file, sought.v)
    IN IF tried.kind = "raise" THEN placeholder(path) ELSE tried.v

\* read_content seeking from the start of the file instead of its end
read_content_seek_set(filepath, filename, file) ==
    LET path == filepath \o sep \o filename
        size == getsize(file)
        opened == IF size.kind = "raise" THEN size ELSE open(file)
        sought == IF opened.kind = "raise" THEN opened
                  ELSE IF size.v >= Cap THEN Return(1) ELSE opened
        tried == IF sought.kind = "raise" THEN sought ELSE read(file, sought.v)
    IN IF tried.kind = "raise" THEN placeholder(path) ELSE tried.v

\* read_content naming only the directory in the placeholder
read_content_short_placeholder(filepath, filename, file) ==
    LET path == filepath \o sep \o filename
        size == getsize(file)
        opened == IF size.kind = "raise" THEN size ELSE open(file)
        sought == IF opened.kind = "raise" THEN opened
                  ELSE IF size.v >= Cap THEN seek_end(file, -Cap) ELSE opened
        tried == IF sought.kind = "raise" THEN sought ELSE read(file, sought.v)
    IN IF tried.kind = "raise" THEN placeholder(filepath) ELSE tried.v

\* Lines 536-547: the content to attach.  Any failure of getsize, open, seek
\* or read gives the placeholder.
read_content(filepath, filename, file) ==
    LET path == filepath \o sep \o filename
        size == getsize(file)
        opened == IF size.kind = "raise" THEN size ELSE open(file)
        sought == IF opened.kind = "raise" THEN opened
                  ELSE IF size.v >= Cap THEN seek_end(file, -Cap) ELSE opened
        tried == IF sought.kind = "raise" THEN sought ELSE read(file, sought.v)
    IN IF tried.kind = "raise" THEN placeholder(path) ELSE tried.v

ContentLen(content) ==
    IF content.t = "bytes" THEN content.to - content.from ELSE Len(content.chars)

\* requests.request("PUT", ...): a transport exception or a status code
PutOutcomes == {Raise("ConnectionError"), Return(204), Return(500)}

\* response.raise_for_status()
raise_for_status(status) ==
    IF status >= 400 THEN Raise("HTTPError") ELSE Return(status)

\* The refreshing get_form_entry(form_name, req_id)
RefreshOutcomes ==
    {Raise(e) : e \in TransportErrors}
    \cup {Return(PyList(<<Entry(1), PyInt(200)>>))}

\* Lines 523-530
attachment_values(filename, details, view_access) ==
    PyDict("z1D_Details" :> (IF details.t # "None" THEN details
                             ELSE PyStr("No details entered"))
        @@ "z1D_View_Access" :> (IF view_access.t # "None" THEN view_access
                                ELSE PyStr("Public"))
        @@ "z1D_Action" :> PyStr("MODIFY")
        @@ "z1D_Activity Type*" :> PyStr("General Information")
        @@ "z1D_Secure_Log" :> PyStr("Yes")
        @@ "z2AF_Act_Attachment_1" :> Chars(filename))

PutRequest(form, req_id, files) ==
    [method |-> "PUT", form |-> form, req_id |-> req_id, files |-> files]

\* Lines 518-570
attach_file_to_workorder(workorder_id, filepath, filename, details, view_access, content_type, env) ==
    LET form_name == "WOI:WorkOrderInterface"
        lookup == get_workorder(workorder_id, env.lookup)
        req_id == Subscript(lookup.result, <<At("values"), At("Request ID")>>)
        values == attachment_values(filename, details, view_access)
        content == read_content(filepath, filename, env.file)
        files == [entry |-> PyDict("values" :> values),
                  attach |-> [filename |-> filename, content |-> content,
                              content_type |-> content_type]]
        put == PutRequest(form_name, req_id.v, files)
        checked == IF env.put.kind = "raise" THEN env.put
                   ELSE raise_for_status(env.put.v)
        refresh == GetRequest(form_name, req_id.v)
        updated_incident == Subscript(env.refresh, <<Idx(0)>>)
    IN IF req_id.kind = "raise"
       THEN [http |-> lookup.http, result |-> req_id]
       ELSE IF checked.kind = "raise"
       THEN [http |-> lookup.http \o <<put>>, result |-> checked]
       ELSE IF updated_incident.kind = "raise"
       THEN [http |-> lookup.http \o <<put, refresh>>, result |-> updated_incident]
       ELSE [http |-> lookup.http \o <<put, refresh>>,
             result |-> Return(PyList(<<updated_incident.v, PyInt(checked.v)>>))]

----------------------------------------------------------------------------
(* State machine *)

NoCall == [op |-> "none"]

Init ==
    /\ call = NoCall
    /\ result = Return(PyNone)
    /\ http = <<>>
    /\ records = <<>>
    /\ nSubmit = 0
    /\ nCreate = 0
    /\ nCalls = 0

\* A read call leaves the server's records alone
Read(op, id, resp, out) ==
    /\ nCalls < MaxCalls
    /\ call' = [op |-> op, id |-> id, resp |-> resp]
    /\ result' = out.result
    /\ http' = out.http
    /\ nCalls' = nCalls + 1
    /\ UNCHANGED <<records, nSubmit, nCreate>>

GetWorkorder ==
    \E id \in Ids, resp \in QueryOutcomes :
        Read("get_workorder", id, resp, get_workorder(id, resp))

GetWorkorderTasks ==
    \E id \in Ids, resp \in QueryOutcomes :
        Read("get_workorder_tasks", id, resp, get_workorder_tasks(id, resp))

GetPersonByUsername ==
    \E id \in Ids, resp \in QueryOutcomes :
        Read("get_person_by_username", id, resp, get_person_by_username(id, resp))

GetIncident ==
    \E id \in Ids, resp \in QueryOutcomes :
        Read("get_incident", id, resp, get_incident(id, resp))

GetIncidentNotes ==
    \E id \in Ids, resp \in QueryOutcomes :
        Read("get_incident_notes", id, resp, get_incident_notes(id, resp))

\* The payloads a caller hands to submit_workorder directly
SubmitValues ==
    {PyDict(("WO Type Field 01" :> PyStr("Build")) @@ CommonValues),
     PyDict(("WO Type Field 01" :> PyStr("Modify")) @@ CommonValues)}

\* The server keeps a record for every create request it answers
Created(reqs, resp) ==
    IF resp.kind = "return" /\ Len(reqs) > 0
    THEN <<[id |-> Len(records) + 1, values |-> reqs[1].values]>>
    ELSE <<>>

CreateRequests(reqs) == {i \in 1..Len(reqs) : reqs[i].method = "POST"}

\* Every submit call there is, the server answering as record newId
SubmitCalls ==
    UNION {
      {[op |-> "submit_workorder", values |-> values, resp |-> resp, newId |-> newId,
        out |-> submit_workorder(values, resp)] :
          values \in SubmitValues, resp \in CreateOutcomes(newId)} :
      newId \in 1..(MaxCalls + 1)}

SubmitWorkorder ==
    \E c \in SubmitCalls :
        /\ nCalls < MaxCalls
        /\ c.newId = Len(records) + 1
        /\ call' = [op |-> c.op, values |-> c.values, resp |-> c.resp]
        /\ result' = c.out.result
        /\ http' = c.out.http
        /\ records' = records \o Created(c.out.http, c.resp)
        /\ nSubmit' = nSubmit + 1
        /\ nCreate' = nCreate + Cardinality(CreateRequests(c.out.http))
        /\ nCalls' = nCalls + 1

\* Every create_workorder call there is.  The outcome of create_form_entry
\* is drawn only when the call reaches it.
CreateWorkorderInputs ==
    [op : {"create_workorder"}, order : Orders, description : Descriptions,
     template_id : TemplateArgs, newId : 1..(MaxCalls + 1),
     resp : UNION {CreateOutcomes(n) : n \in 1..(MaxCalls + 1)}]

CreateWorkorderCalls ==
    LET outcome(c) == create_workorder(c.order, c.description, c.template_id, c.resp)
    IN {[in |-> c, out |-> outcome(c)] :
          c \in {d \in CreateWorkorderInputs :
                   /\ d.resp \in CreateOutcomes(d.newId)
                   /\ outcome(d).http = <<>> => d.resp = Raise("ConnectionError")}}

CreateWorkorder ==
    \E c \in CreateWorkorderCalls :
        /\ nCalls < MaxCalls
        /\ c.in.newId = Len(records) + 1
        /\ call' = [op |-> c.in.op, order |-> c.in.order,
                    description |-> c.in.description,
                    template_id |-> c.in.template_id, resp |-> c.in.resp]
        /\ result' = c.out.result
        /\ http' = c.out.http
        /\ records' = records \o Created(c.out.http, c.in.resp)
        /\ nSubmit' = nSubmit + (IF c.out.http = <<>> THEN 0 ELSE 1)
        /\ nCreate' = nCreate + Cardinality(CreateRequests(c.out.http))
        /\ nCalls' = nCalls + 1

\* Every direct call of create_build_workorder and of
\* create_modification_workorder there is; neither issues a request
MappingCalls ==
    {[op |-> "create_build_workorder", order |-> o, description |-> d,
      template_id |-> t, out |-> create_build_workorder(o, d, t)] :
        o \in Orders, d \in Descriptions, t \in TemplateArgs}
    \cup
    {[op |-> "create_modification_workorder", order |-> o, description |-> d,
      template_id |-> t, out |-> create_modification_workorder(o, d, t)] :
        o \in Orders, d \in Descriptions, t \in TemplateArgs}

Mapping(op) ==
    \E c \in MappingCalls :
        /\ c.op = op
        /\ nCalls < MaxCalls
        /\ call' = [op |-> c.op, order |-> c.order, description |-> c.description,
                    template_id |-> c.template_id]
        /\ result' = c.out
        /\ http' = <<>>
        /\ nCalls' = nCalls + 1
        /\ UNCHANGED <<records, nSubmit, nCreate>>

CreateBuildWorkorder == Mapping("create_build_workorder")

CreateModificationWorkorder == Mapping("create_modification_workorder")

\* What the environment does during one attach call.  The outcome of a step
\* is drawn only when the call reaches the step: the file and the PUT after a
\* lookup that gave a record, the refresh after a PUT that was accepted.
AttachEnvs ==
    LET found(lookup) == lookup.kind = "return" /\ Len(lookup.v.items[1].d["entries"].items) > 0
        accepted(put) == put.kind = "return" /\ put.v < 400
    IN UNION {
         UNION {
           {[lookup |-> l, file |-> f, put |-> p, refresh |-> r] :
              r \in IF found(l) /\ accepted(p) THEN RefreshOutcomes
                    ELSE {Raise("ConnectionError")}} :
           f \in IF found(l) THEN Files ELSE {[fault |-> "none", size |-> 0]},
           p \in IF found(l) THEN PutOutcomes ELSE {Return(204)}} :
         l \in QueryOutcomes}

\* Every attach call there is: its arguments, what the environment does
\* during it, and what it gives
AttachCalls ==
    {[op |-> "attach_file_to_workorder", id |-> id, filepath |-> filepath,
      filename |-> filename, details |-> details, env |-> env,
      out |-> attach_file_to_workorder(id, filepath, filename, details,
                  PyStr("Public"), "application/octet-stream", env)] :
        id \in Ids, filepath \in FilePaths, filename \in FileNames,
        details \in {PyNone, PyStr("boot log")}, env \in AttachEnvs}

AttachFileToWorkorder ==
    \E c \in AttachCalls :
        /\ nCalls < MaxCalls
        /\ call' = [op |-> c.op, id |-> c.id, filepath |-> c.filepath,
                    filename |-> c.filename, details |-> c.details, env |-> c.env]
        /\ result' = c.out.result
        /\ http' = c.out.http
        /\ nCalls' = nCalls + 1
        /\ UNCHANGED <<records, nSubmit, nCreate>>

Next ==
    \/ GetWorkorder
    \/ GetWorkorderTasks
    \/ GetPersonByUsername
    \/ GetIncident
    \/ GetIncidentNotes
    \/ SubmitWorkorder
    \/ CreateWorkorder
    \/ CreateBuildWorkorder
    \/ CreateModificationWorkorder
    \/ AttachFileToWorkorder

Spec == Init /\ [][Next]_vars

----------------------------------------------------------------------------
(* Properties of attach_file_to_workorder *)

IsAttach == call.op = "attach_file_to_workorder"

PutIndexes == {i \in 1..Len(http) : http[i].method = "PUT"}

\* The call got as far as the PUT; it is the second request, after the lookup
PutIssued == IsAttach /\ Len(http) >= 2 /\ http[2].method = "PUT"

AttachedContent == http[2].files.attach.content

\* The step of reading the file that fails does happen: a seek is made only
\* for a file of at least Cap bytes
ReadFails(file) ==
    \/ file.fault \in {"getsize", "open", "read"}
    \/ file.fault = "seek" /\ file.size >= Cap

\* The lookup gave a record, so the call goes on to read the file
LookupFound(lookup) ==
    lookup.kind = "return" /\ Len(lookup.v.items[1].d["entries"].items) > 0

\* C1: a readable file of at least Cap bytes is attached as exactly its last
\* Cap bytes, bytes size-Cap .. size-1 in order.
C1_TrailingWindow ==
    (PutIssued /\ call.env.file.fault = "none" /\ call.env.file.size >= Cap)
        => AttachedContent = Bytes(call.env.file.size - Cap, call.env.file.size)

C1_Witness ==
    /\ PutIssued
    /\ call.env.file = [fault |-> "none", size |-> 2 * Cap]
    /\ AttachedContent = Bytes(Cap, 2 * Cap)

\* C2: a readable file of fewer than Cap bytes, the empty file included, is
\* attached whole, bytes 0 .. size-1 in order.
C2_WholeFile ==
    (PutIssued /\ call.env.file.fault = "none" /\ call.env.file.size < Cap)
        => AttachedContent = Bytes(0, call.env.file.size)

C2_Witness ==
    /\ PutIssued
    /\ call.env.file = [fault |-> "none", size |-> Cap - 1]
    /\ AttachedContent = Bytes(0, Cap - 1)

\* C3: whenever the PUT is issued, the attached content is at most Cap long,
\* whatever the file size and whether or not the read succeeded.
C3_ContentWithinCap ==
    PutIssued => ContentLen(AttachedContent) <= Cap

C3_Witness ==
    /\ PutIssued
    /\ call.env.file.size > Cap
    /\ call.env.file.fault = "none"
    /\ ContentLen(AttachedContent) = Cap

\* C8: when getting the size of, opening, seeking or reading the file fails,
\* the call goes on: exactly one PUT is issued, and it carries the
\* placeholder 'File <path> could not be read' as the attachment and the
\* JSON metadata the call would send for a readable file.
C8_PlaceholderOnReadFailure ==
    (IsAttach /\ LookupFound(call.env.lookup) /\ ReadFails(call.env.file))
        => /\ Cardinality(PutIndexes) = 1
           /\ PutIssued
           /\ AttachedContent =
                 Chars(<<"F", "i", "l", "e", " ">>
                       \o call.filepath \o <<"/">> \o call.filename
                       \o <<" ", "c", "o", "u", "l", "d", " ", "n", "o", "t", " ",
                            "b", "e", " ", "r", "e", "a", "d">>)
           /\ http[2].files.entry =
                 PyDict("values" :>
                     PyDict("z1D_Details" :> (IF call.details.t = "None"
                                              THEN PyStr("No details entered")
                                              ELSE call.details)
                         @@ "z1D_View_Access" :> PyStr("Public")
                         @@ "z1D_Action" :> PyStr("MODIFY")
                         @@ "z1D_Activity Type*" :> PyStr("General Information")
                         @@ "z1D_Secure_Log" :> PyStr("Yes")
                         @@ "z2AF_Act_Attachment_1" :> Chars(call.filename)))

C8_Witness ==
    /\ PutIssued
    /\ call.env.file = [fault |-> "seek", size |-> Cap]
    /\ AttachedContent.t = "str"
    /\ Cardinality(PutIndexes) = 1

----------------------------------------------------------------------------
(* Properties of create_workorder and submit_workorder *)

IsCreateWorkorder == call.op = "create_workorder"

\* The call ran submit_workorder: directly, or from create_workorder
SubmitRan == call.op \in {"submit_workorder", "create_workorder"} /\ http # <<>>

PostIndexes == {i \in 1..Len(http) : http[i].method = "POST"}

\* A payload of the given category was submitted
Submitted(category) ==
    /\ Cardinality(PostIndexes) = 1
    /\ http[1].values.t = "dict"
    /\ "WO Type Field 01" \in DOMAIN http[1].values.d
    /\ http[1].values.d["WO Type Field 01"] = PyStr(category)

\* C4: create_workorder dispatches on the type of the order's first item: a
\* build order always gives a submitted "Build" payload, a modify order a
\* submitted "Modify" payload, any other type the "unsupported type" error
\* with no create request; the call never ends in an exception.
C4_DispatchOnOrderType ==
    IsCreateWorkorder =>
        /\ result.kind = "return"
        /\ call.order.itemType = "BlueprintOrderItem" => Submitted("Build")
        /\ call.order.itemType = "ServerModOrderItem" => Submitted("Modify")
        /\ call.order.itemType \notin {"BlueprintOrderItem", "ServerModOrderItem"}
              => /\ result.v = PyStr("Error: Order item is not a valid type")
                 /\ http = <<>>

\* The created WorkOrder_ID can be read from the outcome of create_form_entry
IdReadable(resp) ==
    /\ resp.kind = "return"
    /\ "values" \in DOMAIN resp.v.items[1].d
    /\ "WorkOrder_ID" \in DOMAIN resp.v.items[1].d["values"].d

\* C6: submit_workorder never raises: it returns the 'values' of the first
\* element of what create_form_entry returned, or, when the create raised or
\* its result has no readable WorkOrder_ID, a string that begins
\* "Error creating workorder:".
C6_SubmitNeverRaises ==
    SubmitRan =>
        /\ result.kind = "return"
        /\ IdReadable(call.resp) => result.v = call.resp.v.items[1].d["values"]
        /\ ~IdReadable(call.resp)
              => result.v.t = "str" /\ result.v.s = "Error creating workorder: "

C6_Witness ==
    /\ call.op = "submit_workorder"
    /\ call.resp.kind = "return"
    /\ ~IdReadable(call.resp)
    /\ result = Return(FStr("Error creating workorder: ", "KeyError"))

\* C10: no dedup, no retry: every execution of submit_workorder issues
\* exactly one create_form_entry request, a create that the server answers
\* makes a new record of its own with the submitted payload, also when the
\* same payload was submitted before.
C10_NoDedupNoRetry ==
    /\ nCreate = nSubmit
    /\ Len(records) <= nCreate
    /\ \A i, j \in 1..Len(records) : records[i].id = records[j].id => i = j
    /\ SubmitRan =>
          /\ Cardinality(PostIndexes) = 1
          /\ Len(http) = 1
          /\ call.resp.kind = "return" =>
                /\ records # <<>>
                /\ records[Len(records)].values = http[1].values

C10_Witness ==
    /\ call.op = "submit_workorder"
    /\ nSubmit = 2
    /\ nCreate = 2
    /\ Len(records) = 2
    /\ records[1].values = records[2].values
    /\ records[1].id # records[2].id

----------------------------------------------------------------------------
(* Properties of the read operations *)

SingleRecordOps == {"get_workorder", "get_person_by_username", "get_incident"}
ListOps == {"get_workorder_tasks", "get_incident_notes"}

IsRead == call.op \in SingleRecordOps \cup ListOps

FormOf(op) ==
    CASE op = "get_workorder" -> "WOI:WorkOrderInterface"
      [] op = "get_workorder_tasks" -> "TMS:Task"
      [] op = "get_person_by_username" -> "CTM:People"
      [] op = "get_incident" -> "HPD:Help Desk"
      [] op = "get_incident_notes" -> "HPD:Help Desk"

\* The entries the query matched
Matched(resp) == resp.v.items[1].d["entries"].items

OneQuery ==
    /\ Len(http) = 1
    /\ http[1].method = "GET"
    /\ http[1].form = FormOf(call.op)
    /\ http[1].req_id.value = call.id

IsErrorString(r) == r.kind = "return" /\ r.v.t = "str"

\* C5: a single-record read whose query succeeds with zero matching entries
\* returns a "not found" error result and does not fail with an IndexError.
C5_ZeroMatchesIsNotFound ==
    (call.op \in SingleRecordOps /\ call.resp.kind = "return"
         /\ Matched(call.resp) = <<>>)
        => IsErrorString(result)

\* C9 as stated: every read operation issues one filtered query against its
\* form, returns the first matching entry when there is one, and an error
\* result when the transport call fails.
C9_EveryReadReturnsFirst ==
    IsRead =>
        /\ OneQuery
        /\ (call.resp.kind = "return" /\ Matched(call.resp) # <<>>)
              => result = Return(Matched(call.resp)[1])
        /\ call.resp.kind = "raise" => IsErrorString(result)

\* C9 amended: every read operation issues one filtered query against its
\* form and returns an error result when the transport call fails; when
\* entries match, get_workorder, get_person_by_username and get_incident
\* return the first one, get_workorder_tasks and get_incident_notes the whole
\* list of them.
C9_ReadReturnsFirstOrList ==
    IsRead =>
        /\ OneQuery
        /\ (call.op \in SingleRecordOps /\ call.resp.kind = "return"
                /\ Matched(call.resp) # <<>>)
              => result = Return(Matched(call.resp)[1])
        /\ (call.op \in ListOps /\ call.resp.kind = "return"
                /\ Matched(call.resp) # <<>>)
              => result = Return(PyList(Matched(call.resp)))
        /\ call.resp.kind = "raise" => IsErrorString(result)

C9_Witness ==
    /\ call.op = "get_incident"
    /\ call.resp.kind = "return"
    /\ Len(Matched(call.resp)) = 2
    /\ result = Return(Entry(1))

\* C7: a transport failure of the lookup, of the PUT or of the refreshing
\* get_form_entry reaches the caller of attach_file_to_workorder as an error
\* result, not as an exception.
C7_TransportFailureIsErrorResult ==
    (IsAttach /\ (\/ call.env.lookup.kind = "raise"
                  \/ call.env.put.kind = "raise"
                  \/ (call.env.put.kind = "return" /\ call.env.put.v >= 400)
                  \/ (Len(http) = 3 /\ call.env.refresh.kind = "raise")))
        => result.kind = "return"

----------------------------------------------------------------------------
(* Properties of the payload mapping *)

IsMapping == call.op \in {"create_build_workorder", "create_modification_workorder"}

\* The order is of the type the called mapping function is for
TypeMatches ==
    \/ call.op = "create_build_workorder" /\ call.order.itemType = "BlueprintOrderItem"
    \/ call.op = "create_modification_workorder"
          /\ call.order.itemType = "ServerModOrderItem"

InvalidTemplate(template_id) ==
    /\ template_id # Omitted
    /\ template_id \notin {BuildServerKey, ModifyServerKey}
    /\ template_id.prefix # "IDGAA"

\* The text has the value under the label
HasLine(text, label, value) ==
    /\ "lines" \in DOMAIN text
    /\ \E i \in DOMAIN text.lines : text.lines[i] = [label |-> label, value |-> value]

\* C11: with no description passed in, create_build_workorder (server
\* attributes available or FakeServer fallback alike) and
\* create_modification_workorder produce the description without failure,
\* and it has the order's hostname under 'Server Name:', its quantity under
\* 'Quantity:' and its funding source under 'Funding Source:'.
C11_DescriptionHasFields ==
    (IsMapping /\ TypeMatches /\ call.description = PyNone
         /\ ~InvalidTemplate(call.template_id))
        => /\ result.kind = "return"
           /\ result.v.t = "dict"
           /\ HasLine(result.v.d["Detailed Description"], "Server Name:",
                      PyStr(call.order.hostname))
           /\ HasLine(result.v.d["Detailed Description"], "Quantity:",
                      PyInt(call.order.quantity))
           /\ HasLine(result.v.d["Detailed Description"], "Funding Source:",
                      PyStr(call.order.funding))

\* The one create request of the call carries a payload, not a string
PayloadSubmitted ==
    /\ Cardinality(PostIndexes) = 1
    /\ http[1].values.t = "dict"

SubmittedTemplate == http[1].values.d["TemplateID"].tid

\* C12: create_workorder called with no template_id submits the template of
\* the order's type: TEMPLATE_LIST['Build_Server'] for a build order,
\* TEMPLATE_LIST['Modify_Server'] for a modify order.
C12_DefaultTemplateMatchesType ==
    (IsCreateWorkorder /\ call.template_id = Omitted /\ PayloadSubmitted)
        => /\ call.order.itemType = "BlueprintOrderItem"
                 => SubmittedTemplate = TStr("IDGAA", "5V0F2IWUAPH3YCVPG73D772NR")
           /\ call.order.itemType = "ServerModOrderItem"
                 => SubmittedTemplate = TStr("IDGAA", "5V0F2BJ9APPV3A8POYHQ1BJB4")

\* C13: template resolution guards submission: a key of TEMPLATE_LIST is
\* replaced by its identifier, an identifier that starts with "IDGAA" is
\* used as is, and for any other template_id create_workorder returns
\* "Error: Invalid template ID" and issues no create request: the error
\* string is never handed to submit_workorder.
C13_InvalidTemplateNotSubmitted ==
    (IsCreateWorkorder
         /\ call.order.itemType \in {"BlueprintOrderItem", "ServerModOrderItem"})
        => /\ \A i \in PostIndexes : http[i].values.t = "dict"
           /\ InvalidTemplate(call.template_id)
                 => /\ result = Return(PyStr("Error: Invalid template ID"))
                    /\ http = <<>>
           /\ (call.template_id \in {BuildServerKey, ModifyServerKey} /\ PayloadSubmitted)
                 => SubmittedTemplate = TEMPLATE_LIST[call.template_id]
           /\ (call.template_id # Omitted /\ call.template_id.prefix = "IDGAA"
                  /\ PayloadSubmitted)
                 => SubmittedTemplate = call.template_id

====
